---- MODULE Spec2Model ----
(***************************************************************************)
(* State machine of the ChatUI component (src/unnamed/part_000): session   *)
(* bootstrap with cold-start retry, the health-polling effect, the message *)
(* dispatcher and the word-by-word reveal of a received response.          *)
(*                                                                         *)
(* Strings that the code splits, trims or concatenates are sequences of    *)
(* one-character strings.  The fixed texts of the component (welcome,      *)
(* error texts) are one-element sequences holding the literal.  Message    *)
(* ids and timestamps (Date.now(), new Date()) are never read by the       *)
(* logic and are left out; the field `origin` records which send created a *)
(* message (0 when none did).  attempts counts the calls of                *)
(* initializeSession; the component does not hold it, and it is cleared    *)
(* once the user types or resets in the established session.               *)
(***************************************************************************)
EXTENDS Integers, Sequences, FiniteSets, TLC

VARIABLES sessionId, isConnected, messages, inputValue, isLoading,
          isInitializing, isFirstLoad, error, storage,
          boot, savedSessionId, attempts,
          probes, chatReqs, resetReqs, timers, sends, mounted, intervals

(* sessionId .. error : the useState fields of lines 8-16 (isDarkTheme,     *)
(*                       which no logic reads, is left out)                 *)
(* storage             : localStorage['voosh_chat_session_id']              *)
(* boot                : where initializeSession stands: "mount" (not yet   *)
(*                       called), "health", "create", "history" (awaiting   *)
(*                       that fetch), "retryWait" (retry timer pending),    *)
(*                       "done", "failed"                                   *)
(* savedSessionId      : the local of initializeSession (line 83)           *)
(* probes              : captured isConnected of the health fetches in      *)
(*                       flight                                             *)
(* chatReqs, resetReqs : chat fetches in flight (by send number), number of *)
(*                       DELETE fetches in flight                           *)
(* timers              : the closures of the running reveal intervals       *)
(* sends, attempts     : accepted sends, calls of initializeSession         *)
(* mounted             : the component has not been unmounted               *)
(* intervals           : captured isConnected of the health-poll intervals  *)
(*                       that are set and not cleared                       *)
vars == <<sessionId, isConnected, messages, inputValue, isLoading,
          isInitializing, isFirstLoad, error, storage,
          boot, savedSessionId, attempts,
          probes, chatReqs, resetReqs, timers, sends, mounted, intervals>>

(* ---------------------------- bounds ----------------------------------- *)
MaxSends == 2
MaxAttempts == 3
MaxLen == 5
(* sends accepted in the runs that check that every request settles *)
MaxLiveSends == 1

(* ---------------------------- values ----------------------------------- *)
Null == "null"
Undefined == <<"undefined">>

CachedSessionIds == {Null, "s1"}
NewSessionIds == {"s1"}

Chars == {"a", "b", "c", " "}
Inputs == {<<" ">>, <<"q", " ">>}
ChatTexts == {<<"a">>}
ChatSources == {Undefined}
RevealSources == {Undefined, <<>>, <<"src1">>}
RevealTexts == UNION {[1..n -> Chars] : n \in 0..MaxLen}
Histories == {<<>>,
              <<[type |-> "user", content |-> <<"h">>, sources |-> Undefined],
                [type |-> "assistant", content |-> <<"r">>, sources |-> <<"src1">>]>>}

FetchFailures == {"non2xx", "neterr", "abort"}
FetchOutcomes == {"ok"} \cup FetchFailures

WelcomeText == <<"Hello! I'm Siri's News Assistant. ...">>
ResetWelcomeText == <<"Session reset! I'm ready to help you ...">>
BootErrorText == <<"I'm unable to connect to the chat service. ...">>
ChatTimeoutText == <<"Request timed out. Please try again ...">>
ChatErrorText == <<"I'm sorry, I encountered an error processing your request. ...">>

ErrStartingUp == "Backend is starting up (free tier). Retrying in 5 seconds..."
ErrBootTimeout == "Connection timed out. ..."
ErrBootFailed == "Failed to connect to chat service."
ErrProbeBad == "Backend service returned an error"
ErrProbeUnreachable == "Cannot reach backend service"
ErrResetTimeout == "Reset request timed out."
ErrResetFailed == "Failed to reset session."

(* ------------------------ string functions ----------------------------- *)
RECURSIVE TrimStart(_)
TrimStart(s) ==
  IF s # <<>> /\ Head(s) = " " THEN TrimStart(Tail(s)) ELSE s

RECURSIVE TrimEnd(_)
TrimEnd(s) ==
  IF s # <<>> /\ s[Len(s)] = " " THEN TrimEnd(SubSeq(s, 1, Len(s) - 1)) ELSE s

Trim(s) == TrimEnd(TrimStart(s))

RECURSIVE Split(_)
Split(s) ==
  IF \E i \in 1..Len(s) : s[i] = " "
  THEN LET i == CHOOSE j \in 1..Len(s) :
                  s[j] = " " /\ \A k \in 1..(j - 1) : s[k] # " "
       IN  <<SubSeq(s, 1, i - 1)>> \o Split(SubSeq(s, i + 1, Len(s)))
  ELSE <<s>>

(* ----------------------------- messages -------------------------------- *)
Msg(snd, txt, streaming, isErr, isWel, srcs, orig) ==
  [sender |-> snd, text |-> txt, isStreaming |-> streaming,
   isError |-> isErr, isWelcome |-> isWel, sources |-> srcs, origin |-> orig]

WelcomeMessage == Msg("bot", WelcomeText, FALSE, FALSE, TRUE, Undefined, 0)
ResetWelcomeMessage == Msg("bot", ResetWelcomeText, FALSE, FALSE, TRUE, Undefined, 0)
BootErrorMessage == Msg("bot", BootErrorText, FALSE, TRUE, FALSE, Undefined, 0)

(* The health-check effect (lines 37-74): it re-runs after a render in      *)
(* which sessionId or isConnected changed, and when sessionId is set it     *)
(* issues a probe at once.  A probe's closure holds the isConnected of the  *)
(* render that created it; probes is the set of the captured values for     *)
(* which at least one fetch is in flight.                                   *)
HealthEffect(sid, conn, inFlight) ==
  IF sid # Null /\ (sid # sessionId \/ conn # isConnected)
  THEN inFlight \cup {conn}
  ELSE inFlight

(* the effect without its cleanup *)
IntervalEffectNoCleanup(sid, conn) ==
  IF sid = sessionId /\ conn = isConnected
  THEN intervals
  ELSE intervals \cup (IF sid # Null THEN {conn} ELSE {})

(* the same effect seen from its interval: when it re-runs, the cleanup of  *)
(* the previous run (line 73) clears that run's interval, and the new run   *)
(* sets one (line 72) unless sessionId is null (line 38)                    *)
IntervalEffect(sid, conn) ==
  IF sid = sessionId /\ conn = isConnected
  THEN intervals
  ELSE IF sid # Null THEN {conn} ELSE {}

Init ==
  /\ sessionId = Null
  /\ isConnected = FALSE
  /\ messages = <<>>
  /\ inputValue = <<>>
  /\ isLoading = FALSE
  /\ isInitializing = TRUE
  /\ isFirstLoad = TRUE
  /\ error = Null
  /\ storage \in CachedSessionIds
  /\ boot = "mount"
  /\ savedSessionId = Null
  /\ attempts = 0
  /\ probes = {}
  /\ chatReqs = {}
  /\ resetReqs = 0
  /\ timers = {}
  /\ sends = 0
  /\ mounted = TRUE
  /\ intervals = {}

(* --------------------------- Session Manager --------------------------- *)
(* initializeSession up to its first await (lines 77-91).  It is called by *)
(* the mount effect and by the retry timer of the catch block.            *)
InitializeSessionBegin ==
  /\ isInitializing' = TRUE
  /\ error' = Null
  /\ isConnected' = FALSE
  /\ savedSessionId' = storage
  /\ boot' = "health"
  /\ attempts' = attempts + 1
  /\ probes' = HealthEffect(sessionId, FALSE, probes)
  /\ intervals' = IntervalEffect(sessionId, FALSE)
  /\ UNCHANGED <<sessionId, messages, inputValue, isLoading, isFirstLoad,
                 storage, chatReqs, resetReqs, timers, sends, mounted>>

Mount ==
  /\ boot = "mount"
  /\ InitializeSessionBegin

(* the catch block with every failure taken as terminal *)
InitializeSessionCatchNoRetry(errName) ==
  /\ isConnected' = FALSE
  /\ storage' = Null
  /\ sessionId' = Null
  /\ messages' = <<BootErrorMessage>>
  /\ error' = IF errName = "abort" THEN ErrBootTimeout ELSE ErrBootFailed
  /\ boot' = "failed"
  /\ isInitializing' = FALSE
  /\ savedSessionId' = Null
  /\ probes' = HealthEffect(sessionId', FALSE, probes)
  /\ intervals' = IntervalEffect(sessionId', FALSE)
  /\ UNCHANGED <<inputValue, isLoading, isFirstLoad, attempts,
                 chatReqs, resetReqs, timers, sends, mounted>>

(* the catch block retrying after any failure of a first load *)
InitializeSessionCatchRetriesAll(errName) ==
  /\ isConnected' = FALSE
  /\ IF isFirstLoad
     THEN /\ error' = ErrStartingUp
          /\ boot' = "retryWait"
          /\ UNCHANGED <<storage, sessionId, messages>>
     ELSE /\ storage' = Null
          /\ sessionId' = Null
          /\ messages' = <<BootErrorMessage>>
          /\ error' = IF errName = "abort" THEN ErrBootTimeout ELSE ErrBootFailed
          /\ boot' = "failed"
  /\ isInitializing' = FALSE
  /\ savedSessionId' = Null
  /\ probes' = HealthEffect(sessionId', FALSE, probes)
  /\ intervals' = IntervalEffect(sessionId', FALSE)
  /\ UNCHANGED <<inputValue, isLoading, isFirstLoad, attempts,
                 chatReqs, resetReqs, timers, sends, mounted>>

(* savedSessionId, a local of initializeSession, is dead when the call      *)
(* returns and is nulled there.                                             *)
(* catch/finally of initializeSession (lines 135-166).  The catch reads     *)
(* isFirstLoad, which only the success path (line 118) sets to false, and   *)
(* nothing throws after line 118, so the value read here is the one of the  *)
(* render that created the running closure.                                 *)
InitializeSessionCatch(errName) ==
  /\ isConnected' = FALSE
  /\ IF isFirstLoad /\ errName = "abort"
     THEN /\ error' = ErrStartingUp
          /\ boot' = "retryWait"
          /\ UNCHANGED <<storage, sessionId, messages>>
     ELSE /\ storage' = Null
          /\ sessionId' = Null
          /\ messages' = <<BootErrorMessage>>
          /\ error' = IF errName = "abort" THEN ErrBootTimeout ELSE ErrBootFailed
          /\ boot' = "failed"
  /\ isInitializing' = FALSE
  /\ savedSessionId' = Null
  /\ probes' = HealthEffect(sessionId', FALSE, probes)
  /\ intervals' = IntervalEffect(sessionId', FALSE)
  /\ UNCHANGED <<inputValue, isLoading, isFirstLoad, attempts,
                 chatReqs, resetReqs, timers, sends, mounted>>

(* variant: the bootstrap reports success without storing the identifier *)
InitializeSessionEstablishNoSession(sid) ==
  /\ sessionId' = sessionId
  /\ isConnected' = TRUE
  /\ isFirstLoad' = FALSE
  /\ boot' = "history"
  /\ probes' = HealthEffect(sid, TRUE, probes)
  /\ intervals' = IntervalEffect(sid, TRUE)
  /\ UNCHANGED <<messages, inputValue, isLoading, isInitializing, error,
                 savedSessionId, attempts, chatReqs, resetReqs, timers, sends,
                 mounted>>

(* lines 116-121: the session is established and the history fetch issued  *)
InitializeSessionEstablish(sid) ==
  /\ sessionId' = sid
  /\ isConnected' = TRUE
  /\ isFirstLoad' = FALSE
  /\ boot' = "history"
  /\ probes' = HealthEffect(sid, TRUE, probes)
  /\ intervals' = IntervalEffect(sid, TRUE)
  /\ UNCHANGED <<messages, inputValue, isLoading, isInitializing, error,
                 savedSessionId, attempts, chatReqs, resetReqs, timers, sends,
                 mounted>>

(* the bootstrap health fetch settling with the cached identifier ignored *)
BootHealthResponseAlwaysCreates(outcome) ==
  /\ boot = "health"
  /\ IF outcome = "ok"
     THEN /\ boot' = "create"
          /\ UNCHANGED <<sessionId, isConnected, messages, inputValue,
                         isLoading, isInitializing, isFirstLoad, error,
                         storage, savedSessionId, attempts, probes, intervals,
                         chatReqs, resetReqs, timers, sends, mounted>>
     ELSE InitializeSessionCatch(outcome)

(* the bootstrap health fetch settles (lines 89-99) *)
BootHealthResponse(outcome) ==
  /\ boot = "health"
  /\ IF outcome = "ok"
     THEN IF savedSessionId # Null
          THEN /\ InitializeSessionEstablish(savedSessionId)
               /\ UNCHANGED storage
          ELSE /\ boot' = "create"
               /\ UNCHANGED <<sessionId, isConnected, messages, inputValue,
                              isLoading, isInitializing, isFirstLoad, error,
                              storage, savedSessionId, attempts, probes, intervals,
                              chatReqs, resetReqs, timers, sends, mounted>>
     ELSE InitializeSessionCatch(outcome)

(* the settled session creation without the write to localStorage *)
CreateSessionResponseNotPersisted(outcome, newId) ==
  /\ boot = "create"
  /\ IF outcome = "ok"
     THEN /\ storage' = storage
          /\ InitializeSessionEstablish(newId)
     ELSE InitializeSessionCatch(outcome)

(* the session-creation fetch settles (lines 103-114) *)
CreateSessionResponse(outcome, newId) ==
  /\ boot = "create"
  /\ IF outcome = "ok"
     THEN /\ storage' = newId
          /\ InitializeSessionEstablish(newId)
     ELSE InitializeSessionCatch(outcome)

(* the conversion with the entries taken newest first *)
ConvertHistoryNewestFirst(h) ==
  [i \in 1..Len(h) |->
     Msg(IF h[Len(h) + 1 - i].type = "user" THEN "user" ELSE "bot",
         h[Len(h) + 1 - i].content,
         FALSE, FALSE, FALSE, h[Len(h) + 1 - i].sources, 0)]

(* loadChatHistory (lines 170-197): the converted history, [] on any failure *)
ConvertHistory(h) ==
  [i \in 1..Len(h) |->
     Msg(IF h[i].type = "user" THEN "user" ELSE "bot", h[i].content,
         FALSE, FALSE, FALSE, h[i].sources, 0)]

(* loadChatHistory without its test of response.ok *)
loadChatHistoryIgnoresStatus(outcome, h) ==
  IF Len(h) > 0 THEN ConvertHistory(h) ELSE <<>>

loadChatHistory(outcome, h) ==
  IF outcome = "ok" /\ Len(h) > 0 THEN ConvertHistory(h) ELSE <<>>

(* the history fetch settles; lines 121-133 and the finally of line 165 *)
HistoryResponse(outcome, h) ==
  /\ boot = "history"
  /\ LET historyMessages == loadChatHistory(outcome, h)
     IN  messages' = IF Len(historyMessages) > 0 THEN historyMessages
                     ELSE <<WelcomeMessage>>
  /\ isInitializing' = FALSE
  /\ boot' = "done"
  /\ savedSessionId' = Null
  /\ UNCHANGED <<sessionId, isConnected, inputValue, isLoading, isFirstLoad,
                 error, storage, attempts, probes, intervals, chatReqs,
                 resetReqs, timers, sends, mounted>>

(* the retry timer pending after a terminal failure too *)
RetryTimerAfterFailure ==
  /\ boot \in {"retryWait", "failed"}
  /\ attempts < MaxAttempts
  /\ InitializeSessionBegin

(* the retry timer of lines 143-146 fires *)
RetryTimer ==
  /\ boot = "retryWait"
  /\ attempts < MaxAttempts
  /\ InitializeSessionBegin

(* ------------------------- Connectivity Monitor ------------------------ *)
(* an interval of line 72 fires: checkConnection of the effect run that    *)
(* set it issues its fetch (lines 40-48)                                   *)
HealthPollTick ==
  /\ \E conn \in intervals : probes' = probes \cup {conn}
  /\ UNCHANGED <<sessionId, isConnected, messages, inputValue, isLoading,
                 isInitializing, isFirstLoad, error, storage, boot,
                 savedSessionId, attempts, chatReqs, resetReqs, timers, sends,
                 mounted, intervals>>

(* checkConnection never marking the connection up *)
ProbeSetsConnectedNeverUp(conn, outcome) ==
  IF outcome = "ok" THEN isConnected
  ELSE IF outcome = "non2xx" THEN FALSE
  ELSE (IF conn THEN FALSE ELSE isConnected)

(* what checkConnection does with the settled fetch (lines 52-68); conn is *)
(* the isConnected its closure captured                                    *)
ProbeSetsConnected(conn, outcome) ==
  IF outcome = "ok" THEN (IF ~conn THEN TRUE ELSE isConnected)
  ELSE IF outcome = "non2xx" THEN FALSE
  ELSE (IF conn THEN FALSE ELSE isConnected)

ProbeSetsError(conn, outcome) ==
  IF outcome = "ok" THEN (IF ~conn THEN Null ELSE error)
  ELSE IF outcome = "non2xx" THEN ErrProbeBad
  ELSE (IF conn THEN ErrProbeUnreachable ELSE error)

(* one fetch of a probe that captured conn settles; others that captured   *)
(* the same value may remain in flight                                      *)
ProbeResponse(conn, outcome, others) ==
  /\ conn \in probes
  /\ isConnected' = ProbeSetsConnected(conn, outcome)
  /\ error' = ProbeSetsError(conn, outcome)
  /\ probes' = HealthEffect(sessionId, isConnected',
                            IF others THEN probes ELSE probes \ {conn})
  /\ intervals' = IntervalEffect(sessionId, isConnected')
  /\ UNCHANGED <<sessionId, messages, inputValue, isLoading, isInitializing,
                 isFirstLoad, storage, boot, savedSessionId, attempts,
                 chatReqs, resetReqs, timers, sends, mounted>>

(* --------------------------- Message Dispatcher ------------------------ *)
(* the guard without its connectivity test *)
SendRejectedIgnoresConnection ==
  \/ Trim(inputValue) = <<>>
  \/ isLoading
  \/ sessionId = Null

(* the guard without its busy test *)
SendRejectedIgnoresBusy ==
  \/ Trim(inputValue) = <<>>
  \/ sessionId = Null
  \/ ~isConnected

(* the early return of line 201 *)
SendRejected ==
  \/ Trim(inputValue) = <<>>
  \/ isLoading
  \/ sessionId = Null
  \/ ~isConnected

(* handleSendMessage up to its await (lines 200-222).  The handler is      *)
(* reached from the send button and the Enter key of the main view, which  *)
(* is not rendered while isInitializing (line 327).                        *)
handleSendMessage ==
  /\ ~isInitializing
  /\ IF SendRejected
     THEN UNCHANGED <<sessionId, isConnected, messages, inputValue, isLoading,
                      isInitializing, isFirstLoad, error, storage, boot,
                      savedSessionId, attempts, probes, intervals, chatReqs, resetReqs,
                      timers, sends, mounted>>
     ELSE /\ sends < MaxSends
          /\ sends' = sends + 1
          /\ messages' = messages \o
               << Msg("user", Trim(inputValue), FALSE, FALSE, FALSE, Undefined, sends'),
                  Msg("bot", <<>>, TRUE, FALSE, FALSE, Undefined, sends') >>
          /\ inputValue' = <<>>
          /\ isLoading' = TRUE
          /\ error' = Null
          /\ chatReqs' = chatReqs \cup {sends'}
          /\ UNCHANGED <<sessionId, isConnected, isInitializing, isFirstLoad,
                         storage, boot, savedSessionId, attempts, probes, intervals,
                         resetReqs, timers, mounted>>

(* ------------------------------ Reveal Engine -------------------------- *)
(* prev.slice(0, -1) *)
DropLast(seq) == IF Len(seq) = 0 THEN <<>> ELSE SubSeq(seq, 1, Len(seq) - 1)

(* the replacement appending the new message without dropping the tail *)
RevealReplaceKeepsTail(msgs, sources, n) ==
  msgs \o << Msg("bot", <<>>, TRUE, FALSE, FALSE, sources, n) >>

(* lines 252-254: the transcript after the replacement, and the closure of *)
(* the interval that line 256 starts                                       *)
RevealReplace(msgs, sources, n) ==
  DropLast(msgs) \o << Msg("bot", <<>>, TRUE, FALSE, FALSE, sources, n) >>

(* the closure with the text trimmed before it is split *)
RevealTimerTrimmed(fullText, sources, n) ==
  [send |-> n, fullText |-> fullText, sources |-> sources,
   words |-> Split(Trim(fullText)), currentText |-> <<>>, wordIndex |-> 0]

RevealTimer(fullText, sources, n) ==
  [send |-> n, fullText |-> fullText, sources |-> sources,
   words |-> Split(fullText), currentText |-> <<>>, wordIndex |-> 0]

TailIsStreamingBot(msgs) ==
  /\ Len(msgs) > 0
  /\ msgs[Len(msgs)].sender = "bot"
  /\ msgs[Len(msgs)].isStreaming

(* the concatenation without the separating space *)
AppendWordNoSeparator(t) == t.currentText \o t.words[t.wordIndex + 1]

(* the interval callback (lines 256-275) *)
AppendWord(t) ==
  t.currentText \o (IF t.wordIndex > 0 THEN <<" ">> ELSE <<>>)
                \o t.words[t.wordIndex + 1]

RevealTick(t) ==
  /\ t \in timers
  /\ IF t.wordIndex < Len(t.words)
     THEN /\ messages' = IF TailIsStreamingBot(messages)
                         THEN [messages EXCEPT ![Len(messages)].text = AppendWord(t)]
                         ELSE messages
          /\ timers' = (timers \ {t}) \cup
                       {[t EXCEPT !.currentText = AppendWord(t),
                                  !.wordIndex = t.wordIndex + 1]}
     ELSE /\ messages' = IF TailIsStreamingBot(messages)
                         THEN [messages EXCEPT ![Len(messages)].isStreaming = FALSE]
                         ELSE messages
          /\ timers' = timers \ {t}
  /\ UNCHANGED <<sessionId, isConnected, inputValue, isLoading, isInitializing,
                 isFirstLoad, error, storage, boot, savedSessionId, attempts,
                 probes, intervals, chatReqs, resetReqs, sends, mounted>>

(* the chat fetch of send n settles: lines 223-247 with the call of        *)
(* simulateStreamingResponse (lines 251-256) on success                    *)
ChatErrorMessage(errName, n) ==
  Msg("bot", IF errName = "abort" THEN ChatTimeoutText ELSE ChatErrorText,
      FALSE, TRUE, FALSE, Undefined, n)

(* the filter keeping finalized bot messages only *)
RemoveStreamingAndUser(msgs) ==
  SelectSeq(msgs, LAMBDA m : ~m.isStreaming /\ m.sender = "bot")

RemoveStreaming(msgs) == SelectSeq(msgs, LAMBDA m : ~m.isStreaming)

(* the settled chat fetch clearing the busy flag on success only *)
ChatResponseBusyAfterFailure(n, outcome, fullText, sources) ==
  /\ n \in chatReqs
  /\ chatReqs' = chatReqs \ {n}
  /\ IF outcome = "ok"
     THEN /\ isConnected' = TRUE
          /\ messages' = RevealReplace(messages, sources, n)
          /\ timers' = timers \cup {RevealTimer(fullText, sources, n)}
          /\ isLoading' = FALSE
     ELSE /\ isConnected' = FALSE
          /\ messages' = RemoveStreaming(messages) \o <<ChatErrorMessage(outcome, n)>>
          /\ timers' = timers
          /\ isLoading' = isLoading
  /\ probes' = HealthEffect(sessionId, isConnected', probes)
  /\ intervals' = IntervalEffect(sessionId, isConnected')
  /\ UNCHANGED <<sessionId, inputValue, isInitializing, isFirstLoad, error,
                 storage, boot, savedSessionId, attempts, resetReqs, sends,
                 mounted>>

ChatResponse(n, outcome, fullText, sources) ==
  /\ n \in chatReqs
  /\ chatReqs' = chatReqs \ {n}
  /\ IF outcome = "ok"
     THEN /\ isConnected' = TRUE
          /\ messages' = RevealReplace(messages, sources, n)
          /\ timers' = timers \cup {RevealTimer(fullText, sources, n)}
     ELSE /\ isConnected' = FALSE
          /\ messages' = RemoveStreaming(messages) \o <<ChatErrorMessage(outcome, n)>>
          /\ timers' = timers
  /\ isLoading' = FALSE
  /\ probes' = HealthEffect(sessionId, isConnected', probes)
  /\ intervals' = IntervalEffect(sessionId, isConnected')
  /\ UNCHANGED <<sessionId, inputValue, isInitializing, isFirstLoad, error,
                 storage, boot, savedSessionId, attempts, resetReqs, sends,
                 mounted>>

(* handleResetSession reachable while the busy flag is set *)
handleResetSessionWhileBusy ==
  /\ ~isInitializing
  /\ ~(sessionId = Null \/ ~isConnected)
  /\ isLoading' = TRUE
  /\ resetReqs' = resetReqs + 1
  /\ attempts' = 0
  /\ UNCHANGED <<sessionId, isConnected, messages, inputValue, isInitializing,
                 isFirstLoad, error, storage, boot, savedSessionId,
                 probes, intervals, chatReqs, timers, sends, mounted>>

(* ------------------------------- Reset --------------------------------- *)
(* handleResetSession up to its await (lines 286-293); the reset button is *)
(* disabled while isLoading or not connected (line 360)                    *)
handleResetSession ==
  /\ ~isInitializing
  /\ ~(isLoading \/ ~isConnected)
  /\ ~(sessionId = Null \/ ~isConnected)
  /\ isLoading' = TRUE
  /\ resetReqs' = resetReqs + 1
  /\ attempts' = 0
  /\ UNCHANGED <<sessionId, isConnected, messages, inputValue, isInitializing,
                 isFirstLoad, error, storage, boot, savedSessionId,
                 probes, intervals, chatReqs, timers, sends, mounted>>

(* the settled DELETE appending the welcome message to the transcript *)
ResetResponseAppends(outcome) ==
  /\ resetReqs > 0
  /\ resetReqs' = resetReqs - 1
  /\ IF outcome = "ok"
     THEN /\ messages' = messages \o <<ResetWelcomeMessage>>
          /\ error' = Null
          /\ isConnected' = isConnected
     ELSE /\ isConnected' = FALSE
          /\ error' = IF outcome = "abort" THEN ErrResetTimeout ELSE ErrResetFailed
          /\ messages' = messages
  /\ isLoading' = FALSE
  /\ probes' = HealthEffect(sessionId, isConnected', probes)
  /\ intervals' = IntervalEffect(sessionId, isConnected')
  /\ UNCHANGED <<sessionId, inputValue, isInitializing, isFirstLoad, storage,
                 boot, savedSessionId, attempts, chatReqs, timers, sends,
                 mounted>>

(* the settled DELETE marking the connection up on success *)
ResetResponseReconnects(outcome) ==
  /\ resetReqs > 0
  /\ resetReqs' = resetReqs - 1
  /\ IF outcome = "ok"
     THEN /\ messages' = <<ResetWelcomeMessage>>
          /\ error' = Null
          /\ isConnected' = TRUE
     ELSE /\ isConnected' = FALSE
          /\ error' = IF outcome = "abort" THEN ErrResetTimeout ELSE ErrResetFailed
          /\ messages' = messages
  /\ isLoading' = FALSE
  /\ probes' = HealthEffect(sessionId, isConnected', probes)
  /\ intervals' = IntervalEffect(sessionId, isConnected')
  /\ UNCHANGED <<sessionId, inputValue, isInitializing, isFirstLoad, storage,
                 boot, savedSessionId, attempts, chatReqs, timers, sends,
                 mounted>>

(* variant: a failed reset reports the generic text for a timeout too *)
ResetResponseOneErrorText(outcome) ==
  /\ resetReqs > 0
  /\ resetReqs' = resetReqs - 1
  /\ IF outcome = "ok"
     THEN /\ messages' = <<ResetWelcomeMessage>>
          /\ error' = Null
          /\ isConnected' = isConnected
     ELSE /\ isConnected' = FALSE
          /\ error' = ErrResetFailed
          /\ messages' = messages
  /\ isLoading' = FALSE
  /\ probes' = HealthEffect(sessionId, isConnected', probes)
  /\ intervals' = IntervalEffect(sessionId, isConnected')
  /\ UNCHANGED <<sessionId, inputValue, isInitializing, isFirstLoad, storage,
                 boot, savedSessionId, attempts, chatReqs, timers, sends,
                 mounted>>

(* the DELETE fetch settles (lines 294-312) *)
ResetResponse(outcome) ==
  /\ resetReqs > 0
  /\ resetReqs' = resetReqs - 1
  /\ IF outcome = "ok"
     THEN /\ messages' = <<ResetWelcomeMessage>>
          /\ error' = Null
          /\ isConnected' = isConnected
     ELSE /\ isConnected' = FALSE
          /\ error' = IF outcome = "abort" THEN ErrResetTimeout ELSE ErrResetFailed
          /\ messages' = messages
  /\ isLoading' = FALSE
  /\ probes' = HealthEffect(sessionId, isConnected', probes)
  /\ intervals' = IntervalEffect(sessionId, isConnected')
  /\ UNCHANGED <<sessionId, inputValue, isInitializing, isFirstLoad, storage,
                 boot, savedSessionId, attempts, chatReqs, timers, sends,
                 mounted>>

(* ------------------------------ main view ------------------------------ *)
(* onChange of the textarea (line 403), disabled while isLoading or not    *)
(* connected (line 404)                                                    *)
ChangeInput(v) ==
  /\ ~isInitializing
  /\ ~(isLoading \/ ~isConnected)
  /\ v # inputValue
  /\ inputValue' = v
  /\ attempts' = 0
  /\ UNCHANGED <<sessionId, isConnected, messages, isLoading, isInitializing,
                 isFirstLoad, error, storage, boot, savedSessionId,
                 probes, intervals, chatReqs, resetReqs, timers, sends, mounted>>

(* the dismiss button of the error banner (lines 365-370) *)
DismissError ==
  /\ ~isInitializing
  /\ error # Null
  /\ error' = Null
  /\ UNCHANGED <<sessionId, isConnected, messages, inputValue, isLoading,
                 isInitializing, isFirstLoad, storage, boot, savedSessionId,
                 attempts, probes, intervals, chatReqs, resetReqs, timers, sends,
                 mounted>>

(* ---------------------------- specifications --------------------------- *)
Next ==
  \/ Mount
  \/ \E o \in FetchOutcomes : BootHealthResponse(o)
  \/ \E o \in FetchOutcomes, id \in NewSessionIds : CreateSessionResponse(o, id)
  \/ \E o \in FetchOutcomes, h \in Histories : HistoryResponse(o, h)
  \/ RetryTimer
  \/ HealthPollTick
  \/ \E c \in probes, o \in FetchOutcomes, others \in BOOLEAN :
        ProbeResponse(c, o, others)
  \/ handleSendMessage
  \/ \E n \in chatReqs, o \in FetchOutcomes, txt \in ChatTexts, srcs \in ChatSources :
        ChatResponse(n, o, txt, srcs)
  \/ \E t \in timers : RevealTick(t)
  \/ handleResetSession
  \/ \E o \in FetchOutcomes : ResetResponse(o)
  \/ \E v \in Inputs : ChangeInput(v)
  \/ DismissError

Spec == Init /\ [][Next]_vars

(* ------------------------------- teardown ------------------------------ *)
(* The component is unmounted.  The only cleanup the component registers    *)
(* is that of the health effect (line 73), which clears the polling         *)
(* interval.  Fetches in flight, the retry timeout of line 143 and the      *)
(* reveal intervals of line 256 are left running, and their callbacks run   *)
(* when they settle or fire.  The state setters they call belong to the     *)
(* unmounted component and have no effect; what they do besides (storage    *)
(* writes, further fetches, timers, the closure variables of a reveal)      *)
(* happens as written.                                                      *)
Teardown ==
  /\ mounted
  /\ boot # "mount"
  /\ mounted' = FALSE
  /\ intervals' = {}
  /\ UNCHANGED <<sessionId, isConnected, messages, inputValue, isLoading,
                 isInitializing, isFirstLoad, error, storage, boot,
                 savedSessionId, attempts, probes, chatReqs, resetReqs,
                 timers, sends>>

(* catch of initializeSession (lines 135-163) after the unmount *)
LateInitializeSessionCatch(errName) ==
  /\ IF isFirstLoad /\ errName = "abort"
     THEN /\ boot' = "retryWait"
          /\ storage' = storage
     ELSE /\ storage' = Null
          /\ boot' = "failed"
  /\ savedSessionId' = Null

(* the bootstrap health fetch settles after the unmount (lines 89-121) *)
LateBootHealthResponse(outcome) ==
  /\ ~mounted
  /\ boot = "health"
  /\ IF outcome = "ok"
     THEN /\ boot' = IF savedSessionId # Null THEN "history" ELSE "create"
          /\ UNCHANGED <<storage, savedSessionId>>
     ELSE LateInitializeSessionCatch(outcome)
  /\ UNCHANGED <<sessionId, isConnected, messages, inputValue, isLoading,
                 isInitializing, isFirstLoad, error, attempts, probes, intervals,
                 chatReqs, resetReqs, timers, sends, mounted>>

(* the session-creation fetch settles after the unmount (lines 103-121) *)
LateCreateSessionResponse(outcome, newId) ==
  /\ ~mounted
  /\ boot = "create"
  /\ IF outcome = "ok"
     THEN /\ storage' = newId
          /\ boot' = "history"
          /\ savedSessionId' = savedSessionId
     ELSE LateInitializeSessionCatch(outcome)
  /\ UNCHANGED <<sessionId, isConnected, messages, inputValue, isLoading,
                 isInitializing, isFirstLoad, error, attempts, probes, intervals,
                 chatReqs, resetReqs, timers, sends, mounted>>

(* the history fetch settles after the unmount: initializeSession returns *)
LateHistoryResponse ==
  /\ ~mounted
  /\ boot = "history"
  /\ boot' = "done"
  /\ savedSessionId' = Null
  /\ UNCHANGED <<sessionId, isConnected, messages, inputValue, isLoading,
                 isInitializing, isFirstLoad, error, storage, attempts, probes, intervals,
                 chatReqs, resetReqs, timers, sends, mounted>>

(* the retry timeout of lines 143-146 fires after the unmount and calls     *)
(* initializeSession (lines 77-91)                                          *)
LateRetryTimer ==
  /\ ~mounted
  /\ boot = "retryWait"
  /\ attempts < MaxAttempts
  /\ savedSessionId' = storage
  /\ boot' = "health"
  /\ attempts' = attempts + 1
  /\ UNCHANGED <<sessionId, isConnected, messages, inputValue, isLoading,
                 isInitializing, isFirstLoad, error, storage, probes, intervals,
                 chatReqs, resetReqs, timers, sends, mounted>>

(* the fetches of the probes that captured conn settle after the unmount *)
LateProbeResponse(conn) ==
  /\ ~mounted
  /\ conn \in probes
  /\ probes' = probes \ {conn}
  /\ UNCHANGED <<sessionId, isConnected, messages, inputValue, isLoading,
                 isInitializing, isFirstLoad, error, storage, boot,
                 savedSessionId, attempts, chatReqs, resetReqs, timers,
                 sends, mounted, intervals>>

(* the chat fetch of send n settles after the unmount; on success           *)
(* simulateStreamingResponse starts its interval (line 256)                 *)
LateChatResponse(n, outcome, fullText, sources) ==
  /\ ~mounted
  /\ n \in chatReqs
  /\ chatReqs' = chatReqs \ {n}
  /\ timers' = IF outcome = "ok"
               THEN timers \cup {RevealTimer(fullText, sources, n)}
               ELSE timers
  /\ UNCHANGED <<sessionId, isConnected, messages, inputValue, isLoading,
                 isInitializing, isFirstLoad, error, storage, boot,
                 savedSessionId, attempts, probes, intervals, resetReqs, sends, mounted>>

(* a reveal interval fires after the unmount (lines 256-275) *)
LateRevealTick(t) ==
  /\ ~mounted
  /\ t \in timers
  /\ timers' = IF t.wordIndex < Len(t.words)
               THEN (timers \ {t}) \cup
                    {[t EXCEPT !.currentText = AppendWord(t),
                               !.wordIndex = t.wordIndex + 1]}
               ELSE timers \ {t}
  /\ UNCHANGED <<sessionId, isConnected, messages, inputValue, isLoading,
                 isInitializing, isFirstLoad, error, storage, boot,
                 savedSessionId, attempts, probes, intervals, chatReqs, resetReqs,
                 sends, mounted>>

(* the DELETE fetch settles after the unmount *)
LateResetResponse ==
  /\ ~mounted
  /\ resetReqs > 0
  /\ resetReqs' = resetReqs - 1
  /\ UNCHANGED <<sessionId, isConnected, messages, inputValue, isLoading,
                 isInitializing, isFirstLoad, error, storage, boot,
                 savedSessionId, attempts, probes, intervals, chatReqs, timers,
                 sends, mounted>>

NextTeardown ==
  \/ mounted /\ Mount
  \/ mounted /\ \E o \in FetchOutcomes : BootHealthResponse(o)
  \/ mounted /\ \E o \in FetchOutcomes, id \in NewSessionIds : CreateSessionResponse(o, id)
  \/ mounted /\ \E o \in FetchOutcomes, h \in Histories : HistoryResponse(o, h)
  \/ mounted /\ RetryTimer
  \/ HealthPollTick
  \/ mounted /\ \E c \in probes, o \in FetchOutcomes, others \in BOOLEAN :
                  ProbeResponse(c, o, others)
  \/ mounted /\ handleSendMessage
  \/ mounted /\ \E n \in chatReqs, o \in FetchOutcomes, txt \in ChatTexts,
                   srcs \in ChatSources : ChatResponse(n, o, txt, srcs)
  \/ mounted /\ \E t \in timers : RevealTick(t)
  \/ mounted /\ handleResetSession
  \/ mounted /\ \E o \in FetchOutcomes : ResetResponse(o)
  \/ mounted /\ \E v \in Inputs : ChangeInput(v)
  \/ mounted /\ DismissError
  \/ Teardown
  \/ \E o \in FetchOutcomes : LateBootHealthResponse(o)
  \/ \E o \in FetchOutcomes, id \in NewSessionIds : LateCreateSessionResponse(o, id)
  \/ LateHistoryResponse
  \/ LateRetryTimer
  \/ \E c \in probes : LateProbeResponse(c)
  \/ \E n \in chatReqs, o \in FetchOutcomes, txt \in ChatTexts, srcs \in ChatSources :
       LateChatResponse(n, o, txt, srcs)
  \/ \E t \in timers : LateRevealTick(t)
  \/ LateResetResponse

SpecTeardown == Init /\ [][NextTeardown]_vars

(* The established session under fair scheduling: monitor, dispatcher,      *)
(* reveal and input.  It starts where the bootstrap has ended with a        *)
(* cached identifier and an empty history (the probe issued by the health   *)
(* effect at line 71 is in flight); initializeSession has returned and the  *)
(* reset button is left alone.  The interval of line 72 keeps firing while  *)
(* a session exists, and a health fetch issued while the status is          *)
(* disconnected, in flight again and again, is eventually answered with     *)
(* success.                                                                 *)
InitSession ==
  /\ sessionId = "s1"
  /\ isConnected = TRUE
  /\ messages = <<WelcomeMessage>>
  /\ inputValue = <<>>
  /\ isLoading = FALSE
  /\ isInitializing = FALSE
  /\ isFirstLoad = FALSE
  /\ error = Null
  /\ storage = "s1"
  /\ boot = "done"
  /\ savedSessionId = Null
  /\ attempts = 1
  /\ probes = {TRUE}
  /\ chatReqs = {}
  /\ resetReqs = 0
  /\ timers = {}
  /\ sends = 0
  /\ mounted = TRUE
  /\ intervals = {TRUE}

NextSession ==
  \/ HealthPollTick
  \/ \E c \in probes, o \in FetchOutcomes, others \in BOOLEAN : ProbeResponse(c, o, others)
  \/ handleSendMessage
  \/ \E n \in chatReqs, o \in FetchOutcomes, txt \in ChatTexts, srcs \in ChatSources :
       ChatResponse(n, o, txt, srcs)
  \/ \E t \in timers : RevealTick(t)
  \/ \E v \in Inputs : ChangeInput(v)
  \/ DismissError

SpecFair ==
  /\ InitSession
  /\ [][NextSession]_vars
  /\ WF_vars(HealthPollTick)
  /\ SF_vars(ProbeResponse(FALSE, "ok", FALSE))

(* The component with every request settling: the mount effect runs, and    *)
(* each fetch (bootstrap health, session creation, history, chat, DELETE)   *)
(* is answered or aborted by its timeout (lines 86, 100, 172, 214, 290).    *)
(* The steps are those of the whole component, with at most MaxLiveSends    *)
(* sends accepted.                                                          *)
NextLive ==
  \/ Mount
  \/ \E o \in FetchOutcomes : BootHealthResponse(o)
  \/ \E o \in FetchOutcomes, id \in NewSessionIds : CreateSessionResponse(o, id)
  \/ \E o \in FetchOutcomes, h \in Histories : HistoryResponse(o, h)
  \/ RetryTimer
  \/ HealthPollTick
  \/ \E c \in probes, o \in FetchOutcomes, others \in BOOLEAN :
        ProbeResponse(c, o, others)
  \/ (SendRejected \/ sends < MaxLiveSends) /\ handleSendMessage
  \/ \E n \in chatReqs, o \in FetchOutcomes, txt \in ChatTexts, srcs \in ChatSources :
        ChatResponse(n, o, txt, srcs)
  \/ \E t \in timers : RevealTick(t)
  \/ handleResetSession
  \/ \E o \in FetchOutcomes : ResetResponse(o)
  \/ \E v \in Inputs : ChangeInput(v)
  \/ DismissError

SpecLive ==
  /\ Init
  /\ [][NextLive]_vars
  /\ WF_vars(Mount)
  /\ WF_vars(\E o \in FetchOutcomes : BootHealthResponse(o))
  /\ WF_vars(\E o \in FetchOutcomes, id \in NewSessionIds : CreateSessionResponse(o, id))
  /\ WF_vars(\E o \in FetchOutcomes, h \in Histories : HistoryResponse(o, h))
  /\ WF_vars(\E n \in chatReqs, o \in FetchOutcomes, txt \in ChatTexts, srcs \in ChatSources :
               ChatResponse(n, o, txt, srcs))
  /\ WF_vars(\E o \in FetchOutcomes : ResetResponse(o))

(* One reveal on its own: the component has bootstrapped with an empty      *)
(* history, the user has sent "q" and the chat request is in flight; the    *)
(* request succeeds with any text of at most MaxLen characters and any      *)
(* source list, and the reveal runs with no other send or reset.            *)
InitReveal ==
  /\ sessionId = "s1"
  /\ isConnected = TRUE
  /\ messages = << WelcomeMessage,
                   Msg("user", <<"q">>, FALSE, FALSE, FALSE, Undefined, 1),
                   Msg("bot", <<>>, TRUE, FALSE, FALSE, Undefined, 1) >>
  /\ inputValue = <<>>
  /\ isLoading = TRUE
  /\ isInitializing = FALSE
  /\ isFirstLoad = FALSE
  /\ error = Null
  /\ storage = "s1"
  /\ boot = "done"
  /\ savedSessionId = Null
  /\ attempts = 0
  /\ probes = {}
  /\ chatReqs = {1}
  /\ resetReqs = 0
  /\ timers = {}
  /\ sends = 1
  /\ mounted = TRUE
  /\ intervals = {TRUE}

NextReveal ==
  \/ /\ chatReqs # {}
     /\ \E txt \in RevealTexts, srcs \in RevealSources : ChatResponse(1, "ok", txt, srcs)
  \/ \E t \in timers : RevealTick(t)

SpecReveal == InitReveal /\ [][NextReveal]_vars

(* ------------------------------- claims -------------------------------- *)
Blank(s) == \A i \in 1..Len(s) : s[i] = " "

StreamingIndexes == {i \in 1..Len(messages) : messages[i].isStreaming}

BotMessagesOf(n) ==
  {i \in 1..Len(messages) : messages[i].sender = "bot" /\ messages[i].origin = n}

UserMessagesOf(n) ==
  {i \in 1..Len(messages) : messages[i].sender = "user" /\ messages[i].origin = n}

(* C1: a call of handleSendMessage while the input is empty or             *)
(* whitespace-only, or isLoading is true, or sessionId is absent, or        *)
(* isConnected is false, changes neither the transcript, the input buffer,  *)
(* the busy flag, the error status nor the connectivity, and issues no      *)
(* chat request.                                                            *)
C1_SendNoOp ==
  [][ ( /\ handleSendMessage
        /\ (Blank(inputValue) \/ isLoading \/ sessionId = Null \/ ~isConnected) )
      => UNCHANGED <<messages, inputValue, isLoading, error, isConnected, chatReqs>>
    ]_vars

(* the main view is rendered, a reset is in flight and the input holds      *)
(* text: the only thing that rejects a send here is the busy flag, and the  *)
(* rejected call leaves this very state                                     *)
C1_Witness ==
  /\ ~isInitializing
  /\ isLoading
  /\ ~Blank(inputValue)
  /\ sessionId # Null
  /\ isConnected
  /\ chatReqs = {}

(* C2 (as claimed): at most one message of the transcript is streaming,     *)
(* and a streaming message is the last element of the transcript.           *)
C2_Original ==
  /\ Cardinality(StreamingIndexes) <= 1
  /\ \A i \in StreamingIndexes : i = Len(messages)

(* C3 (as claimed): every accepted send leaves exactly one user message     *)
(* and ends with exactly one finalized bot message of that send.  In the    *)
(* form a finite run refutes: once no request is in flight and no reveal    *)
(* timer runs, every send whose user message is in the transcript has       *)
(* exactly one user message and exactly one bot message there, and that     *)
(* bot message is not streaming.                                            *)
C3_Original ==
  (chatReqs = {} /\ timers = {} /\ resetReqs = 0)
    => \A n \in 1..sends :
         UserMessagesOf(n) # {}
           => /\ Cardinality(UserMessagesOf(n)) = 1
              /\ Cardinality(BotMessagesOf(n)) = 1
              /\ \A i \in BotMessagesOf(n) : ~messages[i].isStreaming

(* C4: at most one chat request is outstanding in every reachable state.    *)
C4_OneChatRequest == Cardinality(chatReqs) <= 1

(* the second send's request is outstanding after the first one completed   *)
C4_Witness == chatReqs = {2} /\ isLoading

(* C5 (as claimed): no send is accepted while a reveal is in progress, and  *)
(* at most one reveal timer is active: a chat request is never outstanding  *)
(* while a reveal timer runs, and there are never two reveal timers.        *)
C5_Original ==
  /\ chatReqs # {} => timers = {}
  /\ Cardinality(timers) <= 1

TailMessage == messages[Len(messages)]

SpacesIn(s) == Cardinality({i \in 1..Len(s) : s[i] = " "})

(* s is n >= 1 non-empty tokens separated by single spaces *)
SingleSpaced(s) ==
  /\ s # <<>>
  /\ s[1] # " "
  /\ s[Len(s)] # " "
  /\ \A i \in 1..(Len(s) - 1) : ~(s[i] = " " /\ s[i + 1] = " ")

(* the first k tokens of a single-spaced s with their separators: the       *)
(* prefix of s that holds k - 1 spaces and ends where a token ends          *)
TokenPrefix(s, k) ==
  LET j == CHOOSE i \in 1..Len(s) :
             /\ SpacesIn(SubSeq(s, 1, i)) = k - 1
             /\ s[i] # " "
             /\ (i = Len(s) \/ s[i + 1] = " ")
  IN  SubSeq(s, 1, j)

(* C6: in a reveal of a text of n single-space-separated tokens with        *)
(* source list S, with no other send or reset, the k-th tick (k = 1..n)     *)
(* leaves the tail message streaming with the first k tokens joined by      *)
(* single spaces as its text; the tick after the n-th leaves the tail       *)
(* message with the whole text and isStreaming = false and stops the        *)
(* timer; the tail's sources are S after every tick.                        *)
C6_RevealSequence ==
  [][ \A t \in timers :
        (SingleSpaced(t.fullText) /\ RevealTick(t))
          => /\ TailMessage'.sources = t.sources
             /\ IF t.wordIndex < SpacesIn(t.fullText) + 1
                THEN /\ TailMessage'.text = TokenPrefix(t.fullText, t.wordIndex + 1)
                     /\ TailMessage'.isStreaming
                     /\ timers' # {}
                ELSE /\ TailMessage'.text = t.fullText
                     /\ ~TailMessage'.isStreaming
                     /\ timers' = {}
    ]_vars

(* the reveal of "a b c" with sources [] has finished *)
C6_Witness ==
  /\ timers = {}
  /\ chatReqs = {}
  /\ TailMessage.text = <<"a", " ", "b", " ", "c">>
  /\ TailMessage.sources = <<>>
  /\ ~TailMessage.isStreaming

(* C7 (as claimed): a reveal of the empty string is finalized when the      *)
(* reveal call returns: the tail message is not streaming and no reveal     *)
(* timer is running for it.                                                 *)
C7_Original == \A t \in timers : t.fullText # <<>>

(* C8 (as claimed): a failed health probe leaves connectivity               *)
(* disconnected, and a failed probe that follows a failed probe (the        *)
(* status is disconnected and a probe's error is standing) changes neither  *)
(* the connectivity nor the error status.                                   *)
C8_Original ==
  [][ \A c \in probes, o \in FetchFailures, others \in BOOLEAN :
        ProbeResponse(c, o, others)
          => /\ ~isConnected'
             /\ (~isConnected /\ error \in {ErrProbeBad, ErrProbeUnreachable})
                  => (isConnected' = isConnected /\ error' = error)
    ]_vars

(* C9: when the health probe of the first bootstrap attempt times out, the  *)
(* status becomes the transient "starting up" text (shown as information,   *)
(* isFirstLoad still true), the transcript stays empty, the cached          *)
(* identifier stays in storage and a retry is pending;                      *)
(* while the retry is pending the transcript is empty; and when the second  *)
(* attempt has established the session and its history comes back empty     *)
(* (or fails), the transcript is exactly one welcome message.               *)
C9_ColdStart ==
  /\ [](boot = "retryWait" => messages = <<>>)
  /\ [][ /\ (attempts = 1 /\ BootHealthResponse("abort"))
              => /\ error' = ErrStartingUp
                 /\ isFirstLoad'
                 /\ messages' = <<>>
                 /\ storage' = storage
                 /\ boot' = "retryWait"
         /\ (attempts = 2 /\ \E o \in FetchOutcomes : HistoryResponse(o, <<>>))
              => messages' = <<WelcomeMessage>>
       ]_vars

(* the second attempt succeeded and the transcript is the welcome message   *)
C9_Witness ==
  /\ boot = "done"
  /\ attempts = 2
  /\ sessionId # Null
  /\ messages = <<WelcomeMessage>>

(* C10 (as claimed): initializeSession runs at most twice, the first        *)
(* attempt and one retry.                                                   *)
C10_Original == attempts <= 2

(* C11: when bootstrap fails for a reason other than a timeout (network     *)
(* error or non-2xx answer of the health probe or of the session creation), *)
(* the cached identifier is removed from storage, sessionId is null,        *)
(* connectivity is disconnected, the transcript is exactly the one          *)
(* synthesized error message, the error status is set, no retry is          *)
(* pending, and none is started later.                                      *)
C11_TerminalFailure ==
  [][ /\ \A o \in {"non2xx", "neterr"} :
           ( \/ BootHealthResponse(o)
             \/ \E id \in NewSessionIds : CreateSessionResponse(o, id) )
           => /\ storage' = Null
              /\ sessionId' = Null
              /\ ~isConnected'
              /\ messages' = <<BootErrorMessage>>
              /\ BootErrorMessage.isError
              /\ error' = ErrBootFailed
              /\ boot' = "failed"
              /\ ~isInitializing'
      /\ boot = "failed" => boot' = "failed" /\ sessionId' = Null
    ]_vars

(* the first attempt failed for good: the storage holds no identifier and   *)
(* the error message is the transcript                                      *)
C11_Witness ==
  /\ boot = "failed"
  /\ attempts = 1
  /\ error = ErrBootFailed
  /\ storage = Null
  /\ messages = <<BootErrorMessage>>

(* C12: a history load that fails (network error, timeout, non-2xx) or      *)
(* brings an empty history never fails the bootstrap: the session was       *)
(* marked connected when it was established, and when the history fetch     *)
(* settles the bootstrap is done with the session identifier set and        *)
(* stored, connectivity and error status as they were, and the transcript   *)
(* exactly one welcome message.                                             *)
C12_HistoryFailure ==
  [][ /\ (boot # "history" /\ boot' = "history")
           => isConnected' /\ sessionId' # Null /\ storage' = sessionId'
      /\ \A o \in FetchOutcomes : \A h \in Histories :
           ((o # "ok" \/ h = <<>>) /\ HistoryResponse(o, h))
           => /\ boot' = "done"
              /\ ~isInitializing'
              /\ sessionId' = sessionId
              /\ sessionId' # Null
              /\ storage' = sessionId'
              /\ isConnected' = isConnected
              /\ error' = error
              /\ messages' = <<WelcomeMessage>>
    ]_vars

(* the first attempt is done, connected and without error, and the          *)
(* transcript is the welcome message                                        *)
C12_Witness ==
  /\ boot = "done"
  /\ attempts = 1
  /\ isConnected
  /\ error = Null
  /\ storage = sessionId
  /\ sessionId # Null
  /\ messages = <<WelcomeMessage>>
  /\ sends = 0

(* C13: when the history of the established session comes back non-empty,   *)
(* the transcript is the history entries converted one to one in backend    *)
(* order (type user gives sender user, any other type bot), without a       *)
(* welcome message and with no entry streaming.                             *)
C13_HistoryConverted ==
  [][ \A h \in Histories :
        (h # <<>> /\ HistoryResponse("ok", h))
        => /\ Len(messages') = Len(h)
           /\ \A i \in 1..Len(h) :
                /\ messages'[i].sender =
                     (IF h[i].type = "user" THEN "user" ELSE "bot")
                /\ messages'[i].text = h[i].content
                /\ messages'[i].sources = h[i].sources
                /\ ~messages'[i].isStreaming
                /\ ~messages'[i].isWelcome
                /\ ~messages'[i].isError
    ]_vars

(* the bootstrap is done and the transcript is the two-entry history *)
C13_Witness ==
  /\ boot = "done"
  /\ sends = 0
  /\ Len(messages) = 2
  /\ messages[1].sender = "user"
  /\ messages[1].text = <<"h">>
  /\ messages[2].sender = "bot"
  /\ messages[2].text = <<"r">>

(* C14: when the bootstrap health probe succeeds and an identifier is       *)
(* cached, no session-creation request is issued, the stored identifier is  *)
(* left as it is and becomes sessionId; when none is cached, the creation   *)
(* request is issued (once per attempt: only this step issues it) and the   *)
(* identifier it returns is stored and becomes sessionId.                   *)
C14_SessionIdentity ==
  [][ /\ BootHealthResponse("ok")
           => IF storage # Null
              THEN /\ boot' = "history"
                   /\ storage' = storage
                   /\ sessionId' = storage
              ELSE /\ boot' = "create"
                   /\ storage' = Null
                   /\ sessionId' = Null
      /\ (boot # "create" /\ boot' = "create")
           => BootHealthResponse("ok") /\ storage = Null
      /\ \A id \in NewSessionIds :
           CreateSessionResponse("ok", id)
           => /\ boot' = "history"
              /\ storage' = id
              /\ sessionId' = id
      /\ (sessionId = Null /\ sessionId' # Null)
           => boot \in {"health", "create"} /\ boot' = "history"
    ]_vars

(* the session has just been established and its history is awaited *)
C14_Witness ==
  /\ boot = "history"
  /\ sessionId # Null
  /\ storage = sessionId
  /\ messages = <<>>

(* C15: a reset is issued only with a session and while connected, and      *)
(* issuing it changes neither transcript, storage nor sessionId; when its   *)
(* DELETE succeeds the transcript is exactly the one welcome message,       *)
(* whatever it held before, and storage and sessionId are unchanged; the    *)
(* ticks of a reveal that was running at the reset leave that transcript    *)
(* as it is.                                                                *)
C15_ResetClears ==
  [][ /\ handleResetSession
           => /\ sessionId # Null
              /\ isConnected
              /\ UNCHANGED <<messages, storage, sessionId>>
      /\ ResetResponse("ok")
           => /\ messages' = <<ResetWelcomeMessage>>
              /\ ResetWelcomeMessage.isWelcome
              /\ storage' = storage
              /\ sessionId' = sessionId
      /\ (messages = <<ResetWelcomeMessage>> /\ \E t \in timers : RevealTick(t))
           => UNCHANGED <<messages, storage, sessionId>>
    ]_vars

(* a reset succeeded while a reply was being revealed: the transcript is    *)
(* the welcome message and the reveal's interval is still running           *)
C15_Witness ==
  /\ messages = <<ResetWelcomeMessage>>
  /\ timers # {}
  /\ resetReqs = 0
  /\ sessionId # Null
  /\ storage = sessionId

(* C16 (as claimed): when a chat request fails, the transcript afterwards   *)
(* holds no placeholder of that send (its only bot message of that send is  *)
(* the new finalized error message, which is last and carries the timeout   *)
(* text for a timeout and the generic text otherwise), the user message of  *)
(* that send is still there, connectivity is disconnected and sessionId is  *)
(* unchanged.                                                               *)
C16_Original ==
  [][ \A n \in chatReqs : \A o \in FetchFailures :
      \A txt \in ChatTexts : \A srcs \in ChatSources :
        ChatResponse(n, o, txt, srcs)
        => /\ ~isConnected'
           /\ sessionId' = sessionId
           /\ messages'[Len(messages')] =
                Msg("bot", IF o = "abort" THEN ChatTimeoutText ELSE ChatErrorText,
                    FALSE, TRUE, FALSE, Undefined, n)
           /\ {i \in 1..Len(messages') :
                 messages'[i].sender = "bot" /\ messages'[i].origin = n}
                = {Len(messages')}
           /\ \E i \in 1..Len(messages') :
                messages'[i].sender = "user" /\ messages'[i].origin = n
    ]_vars

(* C17: when a chat request succeeds, the tail of the transcript, which is  *)
(* the bot message standing for that send, is replaced by one new streaming *)
(* bot message with empty text and the response's sources, the only bot     *)
(* message of that send; the rest of the transcript and its length are      *)
(* unchanged, a reveal of the response is started, and connectivity is      *)
(* connected afterwards whatever it was.                                    *)
C17_ChatSuccess ==
  [][ \A n \in chatReqs : \A txt \in ChatTexts : \A srcs \in ChatSources :
        ChatResponse(n, "ok", txt, srcs)
        => /\ messages[Len(messages)].sender = "bot"
           /\ messages[Len(messages)].origin = n
           /\ Len(messages') = Len(messages)
           /\ \A i \in 1..(Len(messages) - 1) : messages'[i] = messages[i]
           /\ messages'[Len(messages')] =
                Msg("bot", <<>>, TRUE, FALSE, FALSE, srcs, n)
           /\ {i \in 1..Len(messages') :
                 messages'[i].sender = "bot" /\ messages'[i].origin = n}
                = {Len(messages')}
           /\ \E t \in timers' :
                t.send = n /\ t.fullText = txt /\ t.sources = srcs /\ t.wordIndex = 0
           /\ isConnected'
    ]_vars

(* a chat request succeeded after a probe had marked the connection down    *)
(* while it was in flight: the monitor's probe issued for the disconnected  *)
(* status is still in flight, the status is connected again, and the tail   *)
(* is the empty streaming message of that send                              *)
C17_Witness ==
  /\ isConnected
  /\ FALSE \in probes
  /\ chatReqs = {}
  /\ Len(messages) > 0
  /\ TailMessage.isStreaming
  /\ TailMessage.text = <<>>
  /\ TailMessage.origin = sends
  /\ sends > 0
  /\ \E t \in timers : t.send = sends /\ t.wordIndex = 0

(* C18: a failed chat request keeps the session identifier and leaves the   *)
(* component idle and disconnected; with health probes succeeding, a        *)
(* disconnected status of a live session is eventually followed by          *)
(* connected; and a send with non-blank input, made while connected, idle   *)
(* and with a session, is accepted: its chat request is issued.             *)
C18_RetryAfterFailure ==
  /\ [][ /\ \A n \in chatReqs : \A o \in FetchFailures :
           \A txt \in ChatTexts : \A srcs \in ChatSources :
             ChatResponse(n, o, txt, srcs)
             => /\ sessionId' = sessionId
                /\ sessionId' # Null
                /\ storage' = storage
                /\ ~isLoading'
         /\ ( /\ handleSendMessage
              /\ ~Blank(inputValue) /\ ~isLoading
              /\ sessionId # Null /\ isConnected )
             => /\ sends' = sends + 1
                /\ chatReqs' = chatReqs \cup {sends'}
                /\ Len(messages') = Len(messages) + 2
       ]_vars
  /\ ((sessionId # Null /\ ~isConnected) ~> isConnected)

(* the first send failed, the connection came back and the second send has  *)
(* been accepted                                                            *)
C18_Witness ==
  /\ sends = 2
  /\ chatReqs = {2}
  /\ isConnected
  /\ sessionId # Null
  /\ \E i \in 1..Len(messages) :
       messages[i].isError /\ messages[i].origin = 1

(* C19 (as claimed): a health probe that succeeds while the status is       *)
(* disconnected sets it to connected and clears the error; one that         *)
(* succeeds while the status is connected leaves connectivity, error        *)
(* status, transcript and session as they are.                              *)
C19_Original ==
  [][ \A c \in probes : \A others \in BOOLEAN :
        ProbeResponse(c, "ok", others)
        => IF isConnected
           THEN UNCHANGED <<isConnected, error, messages, sessionId>>
           ELSE isConnected' /\ error' = Null
    ]_vars

(* a settled health probe, a settled chat request *)
ProbeStep ==
  \E c \in probes : \E o \in FetchOutcomes : \E others \in BOOLEAN :
    ProbeResponse(c, o, others)

ChatStep ==
  \E n \in chatReqs : \E o \in FetchOutcomes :
  \E txt \in ChatTexts : \E srcs \in ChatSources :
    ChatResponse(n, o, txt, srcs)

(* C20 (as claimed): the connectivity status changes only in a step of the  *)
(* monitor's probes or of a settled chat request.                           *)
C20_Original ==
  [][ isConnected' # isConnected => (ProbeStep \/ ChatStep) ]_vars

(* C20 (amended): the connectivity status changes only in a step of the     *)
(* monitor's probes, of a settled chat request, of the bootstrap            *)
(* establishing the session (to connected) or of a failed reset (to         *)
(* disconnected); the start of a bootstrap attempt, its failure, the        *)
(* history load, an accepted send, a reveal tick, a successful reset, an    *)
(* input change and the dismissal of the error leave it as it is.           *)
C20_ConnectivityWriters ==
  [][ isConnected' # isConnected
      => \/ ProbeStep
         \/ ChatStep
         \/ /\ boot \in {"health", "create"}
            /\ boot' = "history"
            /\ isConnected'
         \/ /\ \E o \in FetchFailures : ResetResponse(o)
            /\ ~isConnected'
    ]_vars

(* a reset has failed: the status is disconnected with the reset's error,   *)
(* and the probe issued for the change is in flight                         *)
C20_Witness ==
  /\ ~isConnected
  /\ error \in {ErrResetFailed, ErrResetTimeout}
  /\ sessionId # Null
  /\ FALSE \in probes
  /\ resetReqs = 0

(* C21 (as claimed): after the unmount no state of the component is         *)
(* changed any more: connectivity, error status, transcript, busy flag and  *)
(* the session, which is the active identifier and the identifier cached    *)
(* in storage, stay as they were whatever settles afterwards.               *)
C21_Original ==
  [][ ~mounted
      => UNCHANGED <<isConnected, error, messages, isLoading, sessionId, storage>>
    ]_vars

(* C22 (as claimed): after the unmount no health-poll tick and no reveal    *)
(* tick fires.                                                              *)
C22_Original ==
  [][ ~mounted
      => /\ ~HealthPollTick
         /\ ~(\E t \in timers : LateRevealTick(t))
    ]_vars

(* C23: with every request answered or aborted by its timeout, a busy flag  *)
(* that is true is eventually false again, and so is the initializing flag, *)
(* whatever the backend answers and also when every request is aborted.     *)
C23_LoadingEnds ==
  /\ (isLoading ~> ~isLoading)
  /\ (isInitializing ~> ~isInitializing)

(* a chat request was aborted by its timeout and the component is idle      *)
(* again, its bootstrap long over                                           *)
C23_Witness ==
  /\ ~isLoading
  /\ ~isInitializing
  /\ chatReqs = {}
  /\ \E i \in 1..Len(messages) :
       messages[i].text = ChatTimeoutText /\ messages[i].origin = sends

(* C24: once the bootstrap has ended in terminal failure, sessionId is      *)
(* null, the status is disconnected, no health interval is set and no       *)
(* probe, chat or reset request is in flight, a send is rejected; and every *)
(* later step leaves the bootstrap failed and changes neither session,      *)
(* connectivity, transcript, busy flag, storage, requests in flight nor     *)
(* the number of bootstrap attempts.                                        *)
C24_TerminalAbsorbing ==
  /\ [](boot = "failed"
        => /\ sessionId = Null
           /\ ~isConnected
           /\ intervals = {}
           /\ probes = {}
           /\ chatReqs = {}
           /\ resetReqs = 0
           /\ ~isLoading
           /\ SendRejected)
  /\ [][ boot = "failed"
         => /\ boot' = "failed"
            /\ UNCHANGED <<sessionId, isConnected, messages, isLoading, storage,
                           probes, intervals, chatReqs, resetReqs, attempts,
                           timers, sends>>
       ]_vars

(* the bootstrap has failed for good and the user has since dismissed the   *)
(* error banner                                                             *)
C24_Witness ==
  /\ boot = "failed"
  /\ error = Null
  /\ sessionId = Null
  /\ messages = <<BootErrorMessage>>

UserMessages(msgs) == SelectSeq(msgs, LAMBDA m : m.sender = "user")

IsPrefix(a, b) == Len(a) <= Len(b) /\ SubSeq(b, 1, Len(a)) = a

(* C25: after the bootstrap, every step other than a successful reset       *)
(* (sends, settled chat requests, reveal ticks, health probes, failed       *)
(* resets, input) keeps every user message of the transcript, unchanged     *)
(* and in the same order, adding new ones only at the end; and the user     *)
(* messages stand in the order in which they were sent.                     *)
C25_UserAppendOnly ==
  /\ [](\A i, j \in 1..Len(UserMessages(messages)) :
          i < j => UserMessages(messages)[i].origin < UserMessages(messages)[j].origin)
  /\ [][ (boot = "done" /\ ~ResetResponse("ok"))
         => IsPrefix(UserMessages(messages), UserMessages(messages'))
       ]_vars

(* two sends were made, the first failed, and both user messages stand in   *)
(* the transcript around the error message                                  *)
C25_Witness ==
  /\ Len(UserMessages(messages)) >= 2
  /\ \E i \in 1..Len(messages) : messages[i].isError /\ messages[i].origin = 1
  /\ \E i \in 1..Len(messages) : messages[i].sender = "user" /\ messages[i].origin = 1
  /\ \E i \in 1..Len(messages) : messages[i].sender = "user" /\ messages[i].origin = 2

(* C26: a health interval is set only while sessionId is present and at     *)
(* most one is set at a time, the one of the current sessionId and status;  *)
(* no probe is in flight or issued while sessionId is null; and every       *)
(* change of sessionId or of the status leaves exactly the new interval     *)
(* set, with its immediate probe in flight.                                 *)
C26_OneInterval ==
  /\ [](/\ Cardinality(intervals) <= 1
        /\ (sessionId = Null => intervals = {} /\ probes = {})
        /\ (sessionId # Null => intervals = {isConnected}))
  /\ [][ /\ (sessionId' # sessionId \/ isConnected' # isConnected)
            => /\ intervals' = (IF sessionId' # Null THEN {isConnected'} ELSE {})
               /\ (sessionId' # Null => isConnected' \in probes')
         /\ ~(probes' \subseteq probes) => sessionId # Null \/ sessionId' # Null
       ]_vars

(* the status has changed while a probe of the previous interval was in     *)
(* flight: the interval set is the new one alone                            *)
C26_Witness ==
  /\ sessionId # Null
  /\ intervals = {FALSE}
  /\ probes = {TRUE, FALSE}

(* C27: in a reveal running alone, each tick that appends a token leaves    *)
(* the tail streaming and the timer running; the tick after the last token  *)
(* (the tokens are one more than the spaces of the text) finds the tail's   *)
(* text equal to the full response, whatever spaces it holds, clears the    *)
(* streaming flag and stops the timer; and nothing happens afterwards.      *)
C27_RevealComplete ==
  /\ [][ \A t \in timers :
           RevealTick(t)
           => IF t.wordIndex < SpacesIn(t.fullText) + 1
              THEN /\ TailMessage'.isStreaming
                   /\ timers' # {}
              ELSE /\ TailMessage.isStreaming
                   /\ TailMessage.text = t.fullText
                   /\ TailMessage'.text = t.fullText
                   /\ ~TailMessage'.isStreaming
                   /\ timers' = {}
       ]_vars
  /\ [][ ~(timers = {} /\ chatReqs = {}) ]_vars

(* the reveal of " a  " (leading space, two trailing spaces) has finished   *)
(* with exactly that text                                                   *)
C27_Witness ==
  /\ timers = {}
  /\ chatReqs = {}
  /\ TailMessage.text = <<" ", "a", " ", " ">>
  /\ ~TailMessage.isStreaming

(* C28 (as claimed): a reveal tick that changes the transcript changes the  *)
(* message of the send whose response it reveals, and when it finalizes a   *)
(* message, that message's text is the full response of that send.          *)
C28_Original ==
  [][ \A t \in timers :
        (RevealTick(t) /\ messages' # messages)
        => /\ TailMessage.origin = t.send
           /\ (~TailMessage'.isStreaming => TailMessage'.text = t.fullText)
    ]_vars

(* C29: a chat request and a reset request are never in flight together,    *)
(* at most one reset request is in flight, and the busy flag is set         *)
(* whenever a chat or a reset request is in flight.                         *)
C29_OneRequest ==
  /\ ~(chatReqs # {} /\ resetReqs > 0)
  /\ resetReqs <= 1
  /\ ((chatReqs # {} \/ resetReqs > 0) => isLoading)

(* a reset is in flight, issued while a reply was being revealed *)
C29_Witness ==
  /\ resetReqs = 1
  /\ chatReqs = {}
  /\ isLoading
  /\ timers # {}

(* C30: whenever sessionId is set, the identifier in storage equals it; the *)
(* stored identifier changes only when a session creation succeeds (to the  *)
(* identifier returned) or when the bootstrap fails for good (to none).     *)
C30_StoredIdentifier ==
  /\ [](sessionId # Null => storage = sessionId)
  /\ [][ storage' # storage
         => \/ \E id \in NewSessionIds :
                 CreateSessionResponse("ok", id) /\ storage' = id
            \/ /\ storage' = Null
               /\ boot' = "failed"
               /\ \E o \in FetchFailures :
                    \/ BootHealthResponse(o)
                    \/ \E id \in NewSessionIds : CreateSessionResponse(o, id)
       ]_vars

(* the session established on the retry of a cold start is active and     *)
(* stored                                                                 *)
C30_Witness ==
  /\ boot = "history"
  /\ attempts = 2
  /\ sessionId # Null
  /\ storage = sessionId

(* C31: once the bootstrap has established a session identifier, no step    *)
(* (send, reset, probe failure, dispatch failure or any other) changes or   *)
(* clears it; and the status is connected only while sessionId is set.      *)
C31_SessionKept ==
  /\ [](isConnected => sessionId # Null)
  /\ [][sessionId # Null => sessionId' = sessionId]_vars

(* the session is still set after a send that failed and a later reset that *)
(* timed out                                                                *)
C31_Witness ==
  /\ sessionId # Null
  /\ ~isConnected
  /\ error = ErrResetTimeout
  /\ \E i \in 1..Len(messages) : messages[i].isError /\ messages[i].origin = 1

(* C32 (as claimed): whenever the status is connected, no error status is   *)
(* standing: every change of the status from disconnected to connected, by  *)
(* a probe success or by a dispatch success, leaves the error cleared.      *)
C32_Original ==
  isConnected => error = Null

(* C33: a reset request that fails (non-2xx response, network error or      *)
(* timeout) leaves the transcript, sessionId and the stored identifier as   *)
(* they were, sets the status to disconnected, sets an error status (the    *)
(* timeout text for a timeout, the generic text otherwise, the two being    *)
(* different) and clears the busy flag.                                     *)
C33_ResetFailure ==
  [][ \A o \in FetchFailures :
        ResetResponse(o)
        => /\ messages' = messages
           /\ sessionId' = sessionId
           /\ storage' = storage
           /\ ~isConnected'
           /\ error' # Null
           /\ error' = (IF o = "abort" THEN ErrResetTimeout ELSE ErrResetFailed)
           /\ ErrResetTimeout # ErrResetFailed
           /\ ~isLoading'
    ]_vars

(* a reset of a transcript holding a user message has timed out: the user   *)
(* message still stands and the component is idle and disconnected          *)
C33_Witness ==
  /\ resetReqs = 0
  /\ error = ErrResetTimeout
  /\ ~isConnected
  /\ ~isLoading
  /\ storage = sessionId
  /\ sessionId # Null
  /\ \E i \in 1..Len(messages) : messages[i].sender = "user"

====
